---------------------------- MODULE Spec2Model ----------------------------
(***************************************************************************)
(* Model of src/Application.js: the two-mode Application constructor      *)
(* (create a project skeleton / load an existing project), the filesystem *)
(* it tests and changes through ShellJS, and the guarded property setters *)
(* output, config and platformLogfileOutput.                              *)
(*                                                                         *)
(* A path string is a sequence of tokens: the separator SEP or a name.    *)
(* The filesystem holds canonical paths: sequences of names from "/".     *)
(***************************************************************************)
EXTENDS Integers, Sequences, FiniteSets

\* ------------------------------------------------------------------ bounds
\* Number of constructor calls in one behaviour.
MaxCalls == 2
\* Number of directory creations the environment refuses in one behaviour.
MaxFaults == 1

\* ------------------------------------------------------- JavaScript values
SEP == "/"
JsNull == "<null>"
JsUndefined == "<undefined>"

\* faulty variant: only null counts as missing
FalsyNullOnly(v) == v = JsNull

\* if (x) / !x on a string-or-null value
Falsy(v) == v \in {JsNull, JsUndefined, ""}

\* the string the + operator makes of a value
JsString(v) == IF v = JsNull THEN "null"
               ELSE IF v = JsUndefined THEN "undefined"
               ELSE v

\* a member that has not been assigned yet
UndefPath == <<JsUndefined>>
NoObject == [type |-> "undefined", id |-> <<"none", 0>>, path |-> <<>>]
NullObject == [type |-> "null", id |-> <<"none", 0>>, path |-> <<>>]

\* --------------------------------------------------------- the path module
Segs(p) == SelectSeq(p, LAMBDA t : t # SEP)

IsAbsolute(p) == Len(p) > 0 /\ p[1] = SEP

TrailingSlash(p) == Len(p) > 0 /\ p[Len(p)] = SEP

RECURSIVE JoinSegs(_)
JoinSegs(segs) ==
    IF segs = <<>> THEN <<>>
    ELSE IF Len(segs) = 1 THEN segs
    ELSE <<Head(segs), SEP>> \o JoinSegs(Tail(segs))

\* resolves "." and ".." segments; acc is the result so far
RECURSIVE NormalizeArray(_, _, _)
NormalizeArray(parts, allowAboveRoot, acc) ==
    IF parts = <<>> THEN acc
    ELSE LET h == Head(parts)
             t == Tail(parts)
         IN IF h = "." THEN NormalizeArray(t, allowAboveRoot, acc)
            ELSE IF h = ".."
                 THEN IF Len(acc) > 0 /\ acc[Len(acc)] # ".."
                      THEN NormalizeArray(t, allowAboveRoot,
                                          SubSeq(acc, 1, Len(acc) - 1))
                      ELSE IF allowAboveRoot
                           THEN NormalizeArray(t, allowAboveRoot,
                                               Append(acc, ".."))
                           ELSE NormalizeArray(t, allowAboveRoot, acc)
                 ELSE NormalizeArray(t, allowAboveRoot, Append(acc, h))

\* process.cwd(), which Path.resolve prepends to a relative path
ProcessCwd == <<SEP, "work">>

\* Path.normalize: keeps a relative path relative and keeps a trailing slash
PathNormalize(p) ==
    LET abs == IsAbsolute(p)
        body == JoinSegs(NormalizeArray(Segs(p), ~abs, <<>>))
        body1 == IF body = <<>> /\ ~abs THEN <<".">> ELSE body
        body2 == IF body1 # <<>> /\ TrailingSlash(p)
                 THEN body1 \o <<SEP>> ELSE body1
    IN (IF abs THEN <<SEP>> ELSE <<>>) \o body2

\* Path.resolve: always absolute, never a trailing slash
PathResolve(p) ==
    LET full == IF IsAbsolute(p) THEN p ELSE ProcessCwd \o <<SEP>> \o p
    IN <<SEP>> \o JoinSegs(NormalizeArray(Segs(full), FALSE, <<>>))

\* Path.basename: the last name of the path, "" when there is none
PathBasename(p) ==
    LET segs == Segs(p)
    IN IF segs = <<>> THEN "" ELSE segs[Len(segs)]

\* Path.dirname: the text before the separator that precedes the last name
PathDirname(p) ==
    LET names == {j \in 1..Len(p) : p[j] # SEP}
    IN IF names = {} THEN (IF IsAbsolute(p) THEN <<SEP>> ELSE <<".">>)
       ELSE LET j == CHOOSE x \in names : \A y \in names : y <= x
                i == j - 1
            IN IF i = 0 THEN <<".">>
               ELSE IF i = 1 THEN <<SEP>>
               ELSE IF i = 2 /\ IsAbsolute(p) THEN <<SEP, SEP>>
               ELSE SubSeq(p, 1, i - 1)

\* ---------------------------------------------------------- the filesystem
\* result of a lookup that fails
NoEnt == <<SEP>>

Parent(c) == IF c = <<>> THEN <<>> ELSE SubSeq(c, 1, Len(c) - 1)

\* the kernel's walk along the names of a path: every name is looked up in
\* a directory that exists
RECURSIVE Walk(_, _, _)
Walk(D, cur, segs) ==
    IF segs = <<>> THEN cur
    ELSE IF cur \notin D THEN NoEnt
    ELSE LET h == Head(segs)
         IN Walk(D,
                 IF h = "." THEN cur
                 ELSE IF h = ".." THEN Parent(cur)
                 ELSE Append(cur, h),
                 Tail(segs))

Lookup(D, p) ==
    IF p = <<>> THEN NoEnt
    ELSE Walk(D, IF IsAbsolute(p) THEN <<>> ELSE Segs(ProcessCwd), Segs(p))

\* ShellJS.test("-d", p)
TestD(D, p) == Lookup(D, p) \in D

\* fs.existsSync(p): a directory or a regular file
Exists(D, F, p) == Lookup(D, p) \in D \cup DOMAIN F

\* ShellJS.mkdir(p) without -p.  It reports and skips a path that exists or
\* whose parent does not; otherwise the directory is made unless the
\* environment refuses (fault "fail": reported, "raise": thrown).
MkdirSkips(D, F, p) == Exists(D, F, p) \/ ~Exists(D, F, PathDirname(p))

\* faulty variant: a path that exists makes the call throw
MkdirRaisesOnExisting(D, F, p, fault) ==
    \/ Exists(D, F, p)
    \/ /\ ~MkdirSkips(D, F, p)
       /\ (fault = "raise" \/ ~TestD(D, PathDirname(p)))

MkdirRaises(D, F, p, fault) ==
    /\ ~MkdirSkips(D, F, p)
    /\ (fault = "raise" \/ ~TestD(D, PathDirname(p)))

MkdirDirs(D, F, p, fault) ==
    IF MkdirSkips(D, F, p) \/ MkdirRaises(D, F, p, fault) \/ fault = "fail"
    THEN D
    ELSE D \cup {Lookup(D, p)}

\* faulty variant: the file is left in place
RemoveFileKeeps(D, F, p) == F

\* ShellJS.rm("-f", p): removes a regular file, ignores a missing one
RemoveFile(D, F, p) ==
    LET c == Lookup(D, p)
    IN [x \in (DOMAIN F) \ {c} |-> F[x]]

\* ----------------------------------------------------- external collaborators
\* package ids the validator accepts
ValidIds == {"com.example.foo"}
\* candidates it rejects with an exception; it answers null to the others
RaisingIds == {"bad!", "."}

\* objects a caller can hand to the setters
LogfileOutput(id, path) == [type |-> "LogfileOutput", id |-> id, path |-> path]

TerminalInstance == [type |-> "TerminalOutput", id |-> <<"terminal", 0>>,
                     path |-> <<>>]

PlatformSinks == {LogfileOutput(<<"platform", 1>>, <<>>),
                  LogfileOutput(<<"platform", 2>>, <<>>)}

\* undefined, an object that is no LogfileOutput, a string
InvalidValues == {NoObject, TerminalInstance,
                  [type |-> "string", id |-> <<"none", 0>>, path |-> <<>>]}

NoRouter == [type |-> "undefined", logfileOutput |-> NoObject,
             terminalOutput |-> NoObject]

\* new OutputTee(logfileOutput, terminalOutput)
OutputTee(logfileOutput, terminalOutput) ==
    [type |-> "OutputTee", logfileOutput |-> logfileOutput,
     terminalOutput |-> terminalOutput]

\* tee.logfileOutput = sink
TeeSetLogfileOutput(tee, sink) == [tee EXCEPT !.logfileOutput = sink]

\* new LogfileOutput(path) opens the file, creating it empty when missing
OpenLogfile(D, F, p) ==
    LET c == Lookup(D, p)
    IN IF c = NoEnt \/ c \in D \/ c \in DOMAIN F THEN F
       ELSE [x \in (DOMAIN F) \cup {c} |-> IF x = c THEN "" ELSE F[x]]

\* --------------------------------------------------------------- exceptions
NoError == [class |-> "none", msg |-> ""]
InvalidPathException(msg) == [class |-> "InvalidPathException", msg |-> msg]
IllegalAccessException(msg) == [class |-> "IllegalAccessException", msg |-> msg]
\* thrown by the validator
InvalidPackageId == [class |-> "InvalidPackageId", msg |-> ""]
\* thrown by fs.mkdirSync
IOError == [class |-> "Error", msg |-> "mkdir"]

\* -------------------------------------------------------------------- state
\* the command-line processes that construct an Application
Procs == {"cli", "cli2"}

VARIABLES
    dirs,       \* canonical paths that are directories
    files,      \* canonical paths of regular files |-> their content
    app,        \* per process: the Application under construction or in use
    created,    \* successful create-mode constructions so far
    nCalls,     \* constructor calls started
    faults      \* directory creations the environment has refused

vars == <<dirs, files, app, created, nCalls, faults>>

IdleApp ==
    [pc |-> "idle", k |-> 0, callNo |-> 0,
     cwd |-> <<>>, packageId |-> JsUndefined,
     _packageId |-> JsUndefined,
     _rootPath |-> UndefPath, _appPath |-> UndefPath, _logPath |-> UndefPath,
     _pkgPath |-> UndefPath, _prjPath |-> UndefPath,
     _logfileOutput |-> NoObject, _platformLogfileOutput |-> NoObject,
     _output |-> NoRouter,
     err |-> NoError, trace |-> <<>>,
     preDirs |-> {}, preFiles |-> <<>>,
     lastSet |-> [prop |-> "none", err |-> NoError, hadSink |-> FALSE]]

Terminal(a) == a.pc \in {"done", "failed"}

Fail(a, e) == [a EXCEPT !.pc = "failed", !.err = e]

Log(a, op, arg) == [a EXCEPT !.trace = Append(@, <<op, arg>>)]

\* faulty variant: a child comes before the root
PathNamesChildFirst ==
    <<"_appPath", "_rootPath", "_logPath", "_pkgPath", "_prjPath">>

\* the five paths in the order the constructor makes and checks them
PathNames == <<"_rootPath", "_appPath", "_logPath", "_pkgPath", "_prjPath">>

PathOf(a, k) == a[PathNames[k]]

FivePaths(a) == [k \in 1..5 |-> PathOf(a, k)]

\* ------------------------------------------------------------ initial state
Work == <<SEP, "work">>
Project == <<"work", "com.example.foo">>
Children == {"app", "log", "pkg", "prj"}
OldLog == Project \o <<"log", "common.log">>

\* the arguments callers pass: a base directory to create a project in,
\* or also a project directory to load
BaseInputs ==
    {<<>>, <<"work">>, Work, Work \o <<SEP>>, Work \o <<SEP, ".">>,
     <<SEP, "missing">>}

CwdInputs ==
    BaseInputs \cup
    {Work \o <<SEP, "com.example.foo">>,
     Work \o <<SEP, ".", SEP, "com.example.foo">>, Work \o <<SEP, "null">>}

PackageIdInputs == {"com.example.foo", "bad", "bad!"}

CallInputs == (CwdInputs \X {JsUndefined}) \cup (BaseInputs \X PackageIdInputs)

\* /work exists; the project directory is absent, a regular file, or a
\* directory with any of its four children, with or without an old logfile
Init ==
    /\ \E present \in BOOLEAN, S \in SUBSET Children,
          asFile \in BOOLEAN, old \in BOOLEAN :
          /\ asFile => ~present
          /\ ~present => S = {}
          /\ old => "log" \in S
          /\ dirs = {<<>>, <<"work">>}
                    \cup (IF present THEN {Project} ELSE {})
                    \cup {Append(Project, c) : c \in S}
          /\ files = [x \in (IF asFile THEN {Project} ELSE {})
                            \cup (IF old THEN {OldLog} ELSE {}) |-> "old"]
    /\ app = [p \in Procs |-> IdleApp]
    /\ created = {}
    /\ nCalls = 0
    /\ faults = 0

\* ------------------------------------------------------------- constructor
\* CommandParser.validatePackageId(candidate, output): the id when it is
\* valid; otherwise null or an exception
ValidatePackageId(candidate) ==
    IF candidate \in ValidIds THEN [raised |-> FALSE, value |-> candidate]
    ELSE IF candidate \in RaisingIds
    THEN [raised |-> TRUE, value |-> JsUndefined]
    ELSE [raised |-> FALSE, value |-> JsNull]

\* faulty variant: the log directory is put next to the root, not under it
InitMembersLogUnderBase(a, basePath) ==
    LET root == basePath \o <<SEP, JsString(a._packageId)>>
    IN [a EXCEPT !._rootPath = root,
                 !._appPath = root \o <<SEP, "app">>,
                 !._logPath = basePath \o <<SEP, "log">>,
                 !._pkgPath = root \o <<SEP, "pkg">>,
                 !._prjPath = root \o <<SEP, "prj">>]

\* initMembers.call(this, basePath)
InitMembers(a, basePath) ==
    LET root == basePath \o <<SEP, JsString(a._packageId)>>
    IN [a EXCEPT !._rootPath = root,
                 !._appPath = root \o <<SEP, "app">>,
                 !._logPath = root \o <<SEP, "log">>,
                 !._pkgPath = root \o <<SEP, "pkg">>,
                 !._prjPath = root \o <<SEP, "prj">>]

\* Path.join(a, b)
PathJoin(a, b) == PathNormalize(a \o <<SEP>> \o b)

LogfilePath(a) == PathJoin(a._logPath, <<"common.log">>)

\* new Application(cwd, packageId) is called: nothing has run yet
Start(p, cwd, packageId) ==
    /\ nCalls < MaxCalls
    /\ app[p].pc \in {"idle", "done", "failed"}
    /\ nCalls' = nCalls + 1
    /\ app' = [app EXCEPT ![p] =
                 [IdleApp EXCEPT !.pc = "checkAbs", !.callNo = nCalls + 1,
                                 !.cwd = cwd, !.packageId = packageId,
                                 !.preDirs = dirs, !.preFiles = files]]
    /\ UNCHANGED <<dirs, files, created, faults>>

\* faulty variant: only the empty string is refused
NotAbsoluteEmptyOnly(cwd) == cwd = <<>>

\* !cwd || Path.resolve(cwd) != Path.normalize(cwd)
NotAbsolute(cwd) == cwd = <<>> \/ PathResolve(cwd) # PathNormalize(cwd)

CheckAbsolute(p) ==
    LET a == app[p]
    IN /\ app[p].pc = "checkAbs"
       /\ app' = [app EXCEPT ![p] =
                    IF NotAbsolute(a.cwd)
                    THEN Fail(a, InvalidPathException("Path not absolute"))
                    ELSE [a EXCEPT !.pc = "checkCwd"]]
       /\ UNCHANGED <<dirs, files, created, nCalls, faults>>

CheckCwdExists(p) ==
    LET a == Log(app[p], "checkCwd", "cwd")
    IN /\ app[p].pc = "checkCwd"
       /\ app' = [app EXCEPT ![p] =
                    IF ~TestD(dirs, a.cwd)
                    THEN Fail(a, InvalidPathException("Path does not exist"))
                    ELSE [a EXCEPT !.pc = "branch"]]
       /\ UNCHANGED <<dirs, files, created, nCalls, faults>>

\* branch of a supplied packageId, up to initMembers
ValidateSupplied(p) ==
    LET a == Log(app[p], "validate", app[p].packageId)
        r == ValidatePackageId(a.packageId)
    IN /\ app[p].pc = "branch"
       /\ ~Falsy(a.packageId)
       /\ app' = [app EXCEPT ![p] =
                    IF r.raised THEN Fail(a, InvalidPackageId)
                    ELSE [InitMembers([a EXCEPT !._packageId = r.value], a.cwd)
                            EXCEPT !.pc = "checkRoot"]]
       /\ UNCHANGED <<dirs, files, created, nCalls, faults>>

\* branch without a packageId: the id is the name of cwd
DeriveFromCwd(p) ==
    LET basename == PathBasename(app[p].cwd)
        a == Log(app[p], "validate", basename)
        r == ValidatePackageId(basename)
    IN /\ app[p].pc = "branch"
       /\ Falsy(a.packageId)
       /\ app' = [app EXCEPT ![p] =
                    IF r.raised THEN Fail(a, InvalidPackageId)
                    ELSE IF Falsy(r.value)
                    THEN Fail([a EXCEPT !._packageId = r.value],
                              InvalidPathException(
                                  "Path does not seem to be a project toplevel"))
                    ELSE [InitMembers([a EXCEPT !._packageId = r.value],
                                      PathDirname(a.cwd))
                            EXCEPT !.pc = "verify", !.k = 1]]
       /\ UNCHANGED <<dirs, files, created, nCalls, faults>>

\* faulty variant: the root check is left out
RootExistsSkipped(D, a) == FALSE

\* if (ShellJS.test("-d", this._rootPath)) throw
RootExists(D, a) == TestD(D, a._rootPath)

CheckRootAbsent(p) ==
    LET a == Log(app[p], "checkRoot", "_rootPath")
    IN /\ app[p].pc = "checkRoot"
       /\ app' = [app EXCEPT ![p] =
                    IF RootExists(dirs, a)
                    THEN Fail(a, InvalidPathException(
                             "Failed to create project, path already exists"))
                    ELSE [a EXCEPT !.pc = "mkdir", !.k = 1]]
       /\ UNCHANGED <<dirs, files, created, nCalls, faults>>

\* one of the five ShellJS.mkdir calls
Mkdir(p, fault) ==
    LET path == PathOf(app[p], app[p].k)
        refused == fault # "none" /\ ~MkdirSkips(dirs, files, path)
        a == Log(app[p],
                 IF MkdirRaises(dirs, files, path, fault) THEN "mkdir-raised"
                 ELSE IF MkdirDirs(dirs, files, path, fault) = dirs
                 THEN "mkdir-failed"
                 ELSE "mkdir",
                 PathNames[app[p].k])
    IN /\ app[p].pc = "mkdir"
       /\ fault # "none" => faults < MaxFaults /\ refused
       /\ dirs' = MkdirDirs(dirs, files, path, fault)
       /\ faults' = IF refused THEN faults + 1 ELSE faults
       /\ app' = [app EXCEPT ![p] =
                    IF MkdirRaises(dirs, files, path, fault)
                    THEN Fail(a, IOError)
                    ELSE IF a.k = 5 THEN [a EXCEPT !.pc = "verify", !.k = 1]
                    ELSE [a EXCEPT !.k = a.k + 1]]
       /\ UNCHANGED <<files, created, nCalls>>

\* faulty variant: only the root path is verified
PathMissingRootOnly(D, a, k) == k = 1 /\ ~TestD(D, PathOf(a, 1))

\* faulty variant: the log path is not verified
PathMissingSkipsLog(D, a, k) == k # 3 /\ ~TestD(D, PathOf(a, k))

\* faulty variant: the prj path is not verified
PathMissingSkipsPrj(D, a, k) == k # 5 /\ ~TestD(D, PathOf(a, k))

\* if (!ShellJS.test("-d", path)) throw, for the k-th path
PathMissing(D, a, k) == ~TestD(D, PathOf(a, k))

Verify(p) ==
    LET a == Log(app[p], "verify", PathNames[app[p].k])
    IN /\ app[p].pc = "verify"
       /\ app' = [app EXCEPT ![p] =
                    IF PathMissing(dirs, a, a.k)
                    THEN Fail(a, InvalidPathException(
                             "Failed to load, invalid path"))
                    ELSE IF a.k = 5 THEN [a EXCEPT !.pc = "rmLog", !.k = 0]
                    ELSE [a EXCEPT !.k = a.k + 1]]
       /\ UNCHANGED <<dirs, files, created, nCalls, faults>>

RemoveLog(p) ==
    LET a == Log(app[p], "rm", "common.log")
    IN /\ app[p].pc = "rmLog"
       /\ files' = RemoveFile(dirs, files, LogfilePath(a))
       /\ app' = [app EXCEPT ![p] = [a EXCEPT !.pc = "newLog"]]
       /\ UNCHANGED <<dirs, created, nCalls, faults>>

NewLogfile(p) ==
    LET a == Log(app[p], "new", "LogfileOutput")
    IN /\ app[p].pc = "newLog"
       /\ files' = OpenLogfile(dirs, files, LogfilePath(a))
       /\ app' = [app EXCEPT ![p] =
                    [a EXCEPT !.pc = "router",
                              !._logfileOutput =
                                  LogfileOutput(<<"common", a.callNo>>,
                                                LogfilePath(a))]]
       /\ UNCHANGED <<dirs, created, nCalls, faults>>

\* the record kept of a create-mode construction that returned
Creation(a) == [callNo |-> a.callNo, cwd |-> a.cwd, packageId |-> a.packageId,
                _packageId |-> a._packageId, paths |-> FivePaths(a)]

\* faulty variant: the two sinks are passed in the other order
RouterSwapped(a) == OutputTee(TerminalInstance, a._logfileOutput)

\* new OutputTee(this._logfileOutput, TerminalOutput.getInstance())
Router(a) == OutputTee(a._logfileOutput, TerminalInstance)

\* the last two assignments; the constructor returns
NewRouter(p) ==
    LET a == Log(app[p], "new", "OutputTee")
    IN /\ app[p].pc = "router"
       /\ app' = [app EXCEPT ![p] =
                    [a EXCEPT !.pc = "done",
                              !._platformLogfileOutput = NullObject,
                              !._output = Router(a)]]
       /\ created' = IF Falsy(a.packageId) THEN created
                     ELSE created \cup {Creation(a)}
       /\ UNCHANGED <<dirs, files, nCalls, faults>>

\* ------------------------------------------------------------------ setters
\* what the last assignment was and threw, and whether a platform sink was
\* set when it was made
SetResult(a, prop, e) ==
    [prop |-> prop, err |-> e,
     hadSink |-> a._platformLogfileOutput.type = "LogfileOutput"]

\* faulty variant: null clears the override but does not re-point the router
PlatformSetKeepsRouter(a, v) ==
    IF v.type = "LogfileOutput"
    THEN [a EXCEPT !._platformLogfileOutput = v,
                   !._output = TeeSetLogfileOutput(a._output, v),
                   !.lastSet = SetResult(a, "platformLogfileOutput", NoError)]
    ELSE IF v = NullObject
    THEN [a EXCEPT !._platformLogfileOutput = NullObject,
                   !.lastSet = SetResult(a, "platformLogfileOutput", NoError)]
    ELSE [a EXCEPT !.lastSet =
            SetResult(a, "platformLogfileOutput",
                      IllegalAccessException("invalid write"))]

\* faulty variant: a platform sink is stored in place of the common sink as well
PlatformSetReplacesCommon(a, v) ==
    IF v.type = "LogfileOutput"
    THEN [a EXCEPT !._platformLogfileOutput = v,
                   !._logfileOutput = v,
                   !._output = TeeSetLogfileOutput(a._output, v),
                   !.lastSet = SetResult(a, "platformLogfileOutput", NoError)]
    ELSE IF v = NullObject
    THEN [a EXCEPT !._platformLogfileOutput = NullObject,
                   !._output = TeeSetLogfileOutput(a._output, a._logfileOutput),
                   !.lastSet = SetResult(a, "platformLogfileOutput", NoError)]
    ELSE [a EXCEPT !.lastSet =
            SetResult(a, "platformLogfileOutput",
                      IllegalAccessException("invalid write"))]

\* set platformLogfileOutput(v)
PlatformSet(a, v) ==
    IF v.type = "LogfileOutput"
    THEN [a EXCEPT !._platformLogfileOutput = v,
                   !._output = TeeSetLogfileOutput(a._output, v),
                   !.lastSet = SetResult(a, "platformLogfileOutput", NoError)]
    ELSE IF v = NullObject
    THEN [a EXCEPT !._platformLogfileOutput = NullObject,
                   !._output = TeeSetLogfileOutput(a._output, a._logfileOutput),
                   !.lastSet = SetResult(a, "platformLogfileOutput", NoError)]
    ELSE [a EXCEPT !.lastSet =
            SetResult(a, "platformLogfileOutput",
                      IllegalAccessException(
                          "Attempting invalid write to property Application.platformLogfileOutput"))]

\* faulty variant: the value is stored in the router before the exception
OutputSetStores(a, v) ==
    [a EXCEPT !._output = TeeSetLogfileOutput(a._output, v),
              !.lastSet =
                  SetResult(a, "output", IllegalAccessException("read-only"))]

\* set output(v)
OutputSet(a, v) ==
    [a EXCEPT !.lastSet =
        SetResult(a, "output",
                  IllegalAccessException(
                      "Attempting to write read-only property Application.output"))]

\* set config(v)
ConfigSet(a, v) ==
    [a EXCEPT !.lastSet =
        SetResult(a, "config",
                  IllegalAccessException(
                      "Attempting to write read-only property Application.config"))]

\* what a caller may assign: sinks (its own common one too), null, others
SetterValues(a) ==
    PlatformSinks \cup {a._logfileOutput, NullObject} \cup InvalidValues

SetPlatformLogfileOutput(p, v) ==
    /\ app[p].pc = "done"
    /\ app' = [app EXCEPT ![p] = PlatformSet(app[p], v)]
    /\ UNCHANGED <<dirs, files, created, nCalls, faults>>

SetOutput(p, v) ==
    /\ app[p].pc = "done"
    /\ app' = [app EXCEPT ![p] = OutputSet(app[p], v)]
    /\ UNCHANGED <<dirs, files, created, nCalls, faults>>

SetConfig(p, v) ==
    /\ app[p].pc = "done"
    /\ app' = [app EXCEPT ![p] = ConfigSet(app[p], v)]
    /\ UNCHANGED <<dirs, files, created, nCalls, faults>>

\* ------------------------------------------------------------ specification
Step(p) ==
        \/ \E in \in CallInputs : Start(p, in[1], in[2])
        \/ CheckAbsolute(p)
        \/ CheckCwdExists(p)
        \/ ValidateSupplied(p)
        \/ DeriveFromCwd(p)
        \/ CheckRootAbsent(p)
        \/ \E fault \in {"none", "fail", "raise"} : Mkdir(p, fault)
        \/ Verify(p)
        \/ RemoveLog(p)
        \/ NewLogfile(p)
        \/ NewRouter(p)
        \/ \E v \in SetterValues(app[p]) : SetPlatformLogfileOutput(p, v)
        \/ \E v \in PlatformSinks \cup {NullObject} : SetOutput(p, v)
        \/ \E v \in PlatformSinks \cup {NullObject} : SetConfig(p, v)

\* one process, whose constructor calls run one after another
Next == Step("cli")

Spec == Init /\ [][Next]_vars

\* two processes that each create the same project: their constructor
\* calls interleave between any two filesystem operations
RaceStep(p) ==
        \/ Start(p, Work, "com.example.foo")
        \/ CheckAbsolute(p)
        \/ CheckCwdExists(p)
        \/ ValidateSupplied(p)
        \/ CheckRootAbsent(p)
        \/ \E fault \in {"none", "fail", "raise"} : Mkdir(p, fault)
        \/ Verify(p)
        \/ RemoveLog(p)
        \/ NewLogfile(p)
        \/ NewRouter(p)

NextRace == \E p \in Procs : RaceStep(p)

SpecRace == Init /\ [][NextRace]_vars

\* ------------------------------------------------------------------ claims
CreateMode(a) == a.pc # "idle" /\ ~Falsy(a.packageId)
LoadMode(a) == a.pc # "idle" /\ Falsy(a.packageId)

\* the error kinds of the specification, by the throw that raises them
PathConflict(e) ==
    e = InvalidPathException("Failed to create project, path already exists")
InvalidPath(e) ==
    /\ e.class = "InvalidPathException"
    /\ e.msg \in {"Path not absolute", "Path does not exist",
                  "Path does not seem to be a project toplevel",
                  "Failed to load, invalid path"}
IllegalAccess(e) == e.class = "IllegalAccessException"

Ops(a) == {a.trace[i][1] : i \in 1..Len(a.trace)}

Range(s) == {s[i] : i \in 1..Len(s)}

AllFiveExist(D, a) == \A k \in 1..5 : TestD(D, PathOf(a, k))

\* an earlier create-mode construction with the same arguments returned
Repeats(a, c) ==
    /\ CreateMode(a)
    /\ c.callNo < a.callNo
    /\ c.cwd = a.cwd
    /\ c.packageId = a.packageId

\* C1: a create-mode call that repeats the arguments of an earlier
\* successful one fails with PathConflict at the root check, before any
\* mkdir, and leaves the directories and files as they were, the five
\* directories of the first call included.
C1_SecondCreateConflicts ==
    \A p \in Procs : \A c \in created :
        LET a == app[p]
        IN Repeats(a, c) =>
              /\ a.pc \in {"checkAbs", "checkCwd", "branch", "checkRoot",
                           "failed"}
              /\ a.pc = "failed" => PathConflict(a.err)
              /\ Ops(a) \subseteq {"checkCwd", "validate", "checkRoot"}
              /\ dirs = a.preDirs /\ files = a.preFiles
              /\ \A k \in 1..5 : TestD(dirs, c.paths[k])

C1_Witness ==
    \E p \in Procs : \E c \in created :
        /\ Repeats(app[p], c)
        /\ app[p].pc = "failed"
        /\ PathConflict(app[p].err)

\* C2: whenever the constructor has returned, in either mode, the five
\* paths of the instance are directories.
C2_DoneAllFiveExist ==
    \A p \in Procs : app[p].pc = "done" => AllFiveExist(dirs, app[p])

C2_Witness ==
    \E p \in Procs :
        /\ app[p].pc = "done"
        /\ CreateMode(app[p])
        /\ ~TestD(app[p].preDirs, app[p]._rootPath)
        /\ AllFiveExist(dirs, app[p])

\* a directory creation of this call was reported and skipped (Failed), or
\* thrown (Raised)
MkdirFailed(a) == "mkdir-failed" \in Ops(a)
MkdirRaised(a) == "mkdir-raised" \in Ops(a)

LoadError == InvalidPathException("Failed to load, invalid path")

\* cwd is a directory with a valid package id for a name that lacks one of
\* the four children
IncompleteProject(a) ==
    /\ PathBasename(a.cwd) \in ValidIds
    /\ TestD(a.preDirs, a.cwd)
    /\ \E c \in Children : ~TestD(a.preDirs, a.cwd \o <<SEP, c>>)

\* what the sentence of C3 says of a finished call, where mkdirFailed says
\* which create-mode calls count as having had a directory creation fail
C3Holds(a, mkdirFailed) ==
    /\ ("verify" \in Ops(a) /\ ~AllFiveExist(dirs, a))
          => a.pc = "failed" /\ a.err = LoadError
    /\ (LoadMode(a) /\ IncompleteProject(a))
          => a.pc = "failed" /\ a.err = LoadError
    /\ (CreateMode(a) /\ mkdirFailed)
          => a.pc = "failed" /\ InvalidPath(a.err)

\* C3 as stated: a call that reaches the convergence check with one of the
\* five paths missing fails with InvalidPath; so does a load from an
\* incomplete project; so does a create-mode call in which a directory
\* creation failed in any way.
C3_Original ==
    \A p \in Procs :
        Terminal(app[p]) =>
            C3Holds(app[p], MkdirFailed(app[p]) \/ MkdirRaised(app[p]))

\* C3 amended: the same, for a create-mode call in which a directory
\* creation failed without raising and none raised.
C3_MissingPathIsInvalidPath ==
    \A p \in Procs :
        Terminal(app[p]) =>
            C3Holds(app[p], MkdirFailed(app[p]) /\ ~MkdirRaised(app[p]))

C3_Witness ==
    \E p \in Procs :
        /\ CreateMode(app[p])
        /\ MkdirFailed(app[p]) /\ ~MkdirRaised(app[p])
        /\ app[p].pc = "failed"
        /\ app[p].err = LoadError

\* C4: a load-mode call whose cwd is the rootPath of an earlier successful
\* create-mode construction succeeds with the packageId and the five paths
\* of that construction.
C4_LoadRoundTrip ==
    \A p \in Procs : \A c \in created :
        LET a == app[p]
        IN (LoadMode(a) /\ Terminal(a) /\ c.callNo < a.callNo
               /\ a.cwd = c.paths[1])
              => /\ a.pc = "done"
                 /\ a._packageId = c._packageId
                 /\ FivePaths(a) = c.paths

\* C5: on a constructed instance the secondary sink of the router is
\* platformLogfileOutput when that is not null and the common logfile sink
\* when it is null; before the first assignment it is null.
C5_RouterExclusivity ==
    \A p \in Procs :
        LET a == app[p]
        IN a.pc = "done" =>
              /\ a._output.logfileOutput =
                    IF a._platformLogfileOutput # NullObject
                    THEN a._platformLogfileOutput
                    ELSE a._logfileOutput
              /\ a._platformLogfileOutput = NullObject
                    \/ a._platformLogfileOutput.type = "LogfileOutput"
              /\ a.lastSet.prop = "none"
                    => a._platformLogfileOutput = NullObject

C5_Witness ==
    \E p \in Procs :
        /\ app[p].pc = "done"
        /\ app[p]._platformLogfileOutput \in PlatformSinks
        /\ app[p]._output.logfileOutput = app[p]._platformLogfileOutput
        /\ IllegalAccess(app[p].lastSet.err)

\* the common logfile sink made by the constructor call of this instance
CommonSink(a) == LogfileOutput(<<"common", a.callNo>>, LogfilePath(a))

\* C6: the instance holds the common logfile sink made at construction
\* whatever has been assigned, and while platformLogfileOutput is null that
\* very object is the secondary sink of the router.
C6_NullRestoresCommonSink ==
    \A p \in Procs :
        LET a == app[p]
        IN a.pc = "done" =>
              /\ a._logfileOutput = CommonSink(a)
              /\ a._platformLogfileOutput = NullObject
                    => a._output.logfileOutput = CommonSink(a)

C6_Witness ==
    \E p \in Procs :
        /\ app[p].pc = "done"
        /\ app[p].lastSet =
              [prop |-> "platformLogfileOutput", err |-> NoError,
               hadSink |-> TRUE]
        /\ app[p]._platformLogfileOutput = NullObject
        /\ app[p]._output.logfileOutput = CommonSink(app[p])

SameSinks(a, b) ==
    /\ b._output = a._output
    /\ b._platformLogfileOutput = a._platformLogfileOutput
    /\ b._logfileOutput = a._logfileOutput

\* C7: an assignment to output, to config, or of a value that is neither a
\* LogfileOutput nor null to platformLogfileOutput throws IllegalAccess and
\* leaves the router, its sinks and platformLogfileOutput as they were.
C7_IllegalWritesChangeNothing ==
    [][\A p \in Procs :
          LET a == app[p]
              b == app'[p]
          IN /\ \A v \in SetterValues(a) :
                    SetOutput(p, v) =>
                        /\ b.lastSet.prop = "output"
                        /\ IllegalAccess(b.lastSet.err)
                        /\ SameSinks(a, b)
             /\ \A v \in SetterValues(a) :
                    SetConfig(p, v) =>
                        /\ b.lastSet.prop = "config"
                        /\ IllegalAccess(b.lastSet.err)
                        /\ SameSinks(a, b)
             /\ \A v \in InvalidValues :
                    SetPlatformLogfileOutput(p, v) =>
                        /\ b.lastSet.prop = "platformLogfileOutput"
                        /\ IllegalAccess(b.lastSet.err)
                        /\ SameSinks(a, b)]_vars

C7_Witness ==
    \E p \in Procs :
        /\ app[p].pc = "done"
        /\ app[p].lastSet.prop = "output"
        /\ IllegalAccess(app[p].lastSet.err)
        /\ app[p].lastSet.hadSink
        /\ app[p]._output.logfileOutput \in PlatformSinks

\* C8: on a constructed instance the primary sink of the router is the
\* terminal singleton and its secondary sink is a logfile sink, whatever
\* has been assigned.
C8_TerminalStaysPrimary ==
    \A p \in Procs :
        app[p].pc = "done" =>
            /\ app[p]._output.type = "OutputTee"
            /\ app[p]._output.terminalOutput = TerminalInstance
            /\ app[p]._output.logfileOutput.type = "LogfileOutput"

C8_Witness ==
    \E p \in Procs :
        /\ app[p].pc = "done"
        /\ app[p].lastSet.prop = "platformLogfileOutput"
        /\ app[p]._platformLogfileOutput \in PlatformSinks
        /\ app[p]._output.terminalOutput = TerminalInstance

\* the call has not gone past the cwd checks: no validator, no filesystem
\* change, and InvalidPath when it has ended
StoppedAtInput(a) ==
    /\ a.pc \in {"checkAbs", "checkCwd", "failed"}
    /\ a.pc = "failed" => InvalidPath(a.err)
    /\ Ops(a) \subseteq {"checkCwd"}
    /\ dirs = a.preDirs /\ files = a.preFiles

\* C9 as stated: a call whose cwd is empty, differs from its own
\* normalized absolute form, or is no directory stops at the input checks.
C9_Original ==
    \A p \in Procs :
        LET a == app[p]
        IN (a.pc # "idle"
              /\ (a.cwd = <<>> \/ a.cwd # PathResolve(a.cwd)
                    \/ ~TestD(a.preDirs, a.cwd)))
              => StoppedAtInput(a)

\* C9 amended: a call whose cwd is empty, whose resolved form differs from
\* its normalized form, or is no directory stops at the input checks.
C9_InputValidationFirst ==
    \A p \in Procs :
        LET a == app[p]
        IN (a.pc # "idle"
              /\ (a.cwd = <<>> \/ PathResolve(a.cwd) # PathNormalize(a.cwd)
                    \/ ~TestD(a.preDirs, a.cwd)))
              => StoppedAtInput(a)

C9_Witness ==
    \E p \in Procs :
        /\ app[p].pc = "failed"
        /\ app[p].cwd = Work \o <<SEP>>
        /\ TestD(dirs, app[p].cwd)
        /\ app[p].err = InvalidPathException("Path not absolute")
        /\ app[p].trace = <<>>

\* C10: a create-mode call whose packageId the validator rejects never
\* returns an instance and creates no directory.
C10_RejectedIdCreatesNothing ==
    \A p \in Procs :
        LET a == app[p]
        IN (CreateMode(a) /\ a.packageId \notin ValidIds)
              => a.pc # "done" /\ dirs = a.preDirs

\* initMembers has run in this call
LayoutComputed(a) ==
    \/ a.pc \in {"checkRoot", "mkdir", "verify", "rmLog", "newLog", "router",
                 "done"}
    \/ a.pc = "failed"
         /\ Ops(a) \cap {"checkRoot", "mkdir-raised", "verify"} # {}

\* the base the constructor hands to initMembers
BasePath(a) == IF CreateMode(a) THEN a.cwd ELSE PathDirname(a.cwd)

\* C11: once the layout is computed, rootPath is basePath, a separator and
\* the instance's package id, and the other four paths are rootPath, a
\* separator and app, log, pkg, prj; basePath is cwd in create mode and
\* dirname(cwd) in load mode, where the id is the last name of cwd and
\* rootPath names the directory cwd names.  The paths are this function of
\* cwd and the id in every state of the filesystem.
C11_PathDeterminism ==
    \A p \in Procs :
        LET a == app[p]
            root == BasePath(a) \o <<SEP, JsString(a._packageId)>>
        IN LayoutComputed(a) =>
              /\ a._rootPath = root
              /\ a._appPath = root \o <<SEP, "app">>
              /\ a._logPath = root \o <<SEP, "log">>
              /\ a._pkgPath = root \o <<SEP, "pkg">>
              /\ a._prjPath = root \o <<SEP, "prj">>
              /\ (CreateMode(a) /\ a.packageId \in ValidIds)
                    => a._packageId = a.packageId
              /\ LoadMode(a) =>
                    /\ a._packageId = PathBasename(a.cwd)
                    /\ TestD(dirs, a.cwd)
                    /\ Lookup(dirs, a._rootPath) = Lookup(dirs, a.cwd)

\* a project created under /work and then loaded through a cwd that is not
\* in normal form
C11_Witness ==
    \E p \in Procs :
        /\ app[p].pc = "done"
        /\ LoadMode(app[p])
        /\ app[p].cwd = Work \o <<SEP, ".", SEP, "com.example.foo">>
        /\ app[p]._logPath = app[p].cwd \o <<SEP, "log">>
        /\ \E c \in created :
              c.paths[1] = Work \o <<SEP, "com.example.foo">>

\* step x is in the trace of the call, before step y
Before(a, x, y) ==
    \E i, j \in 1..Len(a.trace) :
        i < j /\ a.trace[i] = x /\ a.trace[j] = y

RmLog == <<"rm", "common.log">>
NewSink == <<"new", "LogfileOutput">>
NewTee == <<"new", "OutputTee">>

\* the file the call's common logfile sink writes to
CommonLog(a) == Lookup(dirs, a._logPath \o <<SEP, "common.log">>)

\* C12: in a call that has got to the logging bootstrap the removal of
\* logPath/common.log comes before the creation of the sink, and that
\* before the creation of the router; between removal and sink there is no
\* common.log, and from the creation of the sink to the end of a successful
\* construction common.log is an empty file, whatever it held before.
C12_FreshCommonLog ==
    \A p \in Procs :
        LET a == app[p]
        IN /\ a.pc = "newLog" =>
                 /\ RmLog \in Range(a.trace)
                 /\ NewSink \notin Range(a.trace)
                 /\ CommonLog(a) \notin DOMAIN files
           /\ a.pc = "router" =>
                 /\ Before(a, RmLog, NewSink)
                 /\ NewTee \notin Range(a.trace)
                 /\ CommonLog(a) \in DOMAIN files
                 /\ files[CommonLog(a)] = ""
           /\ a.pc = "done" =>
                 /\ Before(a, RmLog, NewSink)
                 /\ Before(a, NewSink, NewTee)
                 /\ CommonLog(a) \in DOMAIN files
                 /\ files[CommonLog(a)] = ""
                 /\ Lookup(dirs, a._logfileOutput.path) = CommonLog(a)

\* a project whose log directory held a common.log with content is loaded
C12_Witness ==
    \E p \in Procs :
        /\ app[p].pc = "done"
        /\ LoadMode(app[p])
        /\ OldLog \in DOMAIN app[p].preFiles
        /\ app[p].preFiles[OldLog] = "old"
        /\ CommonLog(app[p]) = OldLog
        /\ files[OldLog] = ""

\* the ShellJS.mkdir calls the call has made, in the order it made them
MkdirAttempts(a) ==
    SelectSeq(a.trace,
              LAMBDA e : e[1] \in {"mkdir", "mkdir-failed", "mkdir-raised"})

CreationOrder == <<"_rootPath", "_appPath", "_logPath", "_pkgPath", "_prjPath">>

\* C13: the directory creations a call attempts are, in this order, those
\* of rootPath, appPath, logPath, pkgPath and prjPath; a call attempts one
\* only in create mode, after its root check, when rootPath was no
\* directory, and a load-mode call or a call that ends in PathConflict
\* attempts none.
C13_CreationOrder ==
    \A p \in Procs :
        LET a == app[p]
            att == MkdirAttempts(a)
        IN /\ Len(att) <= 5
           /\ \A i \in 1..Len(att) : att[i][2] = CreationOrder[i]
           /\ a.pc = "mkdir" => Len(att) = a.k - 1
           /\ att # <<>> =>
                 /\ CreateMode(a)
                 /\ Before(a, <<"checkRoot", "_rootPath">>, att[1])
                 /\ ~TestD(a.preDirs, a._rootPath)
                 /\ ~PathConflict(a.err)
           /\ (a.pc = "failed" /\ PathConflict(a.err)) =>
                 /\ att = <<>>
                 /\ dirs = a.preDirs

\* a create-mode call that has attempted all five, the root first
C13_Witness ==
    \E p \in Procs :
        /\ CreateMode(app[p])
        /\ app[p].pc = "verify"
        /\ Len(MkdirAttempts(app[p])) = 5
        /\ MkdirAttempts(app[p])[1] = <<"mkdir", "_rootPath">>
        /\ MkdirAttempts(app[p])[5] = <<"mkdir", "_prjPath">>

\* the call has started the logging bootstrap
Bootstrapped(a) == Range(a.trace) \cap {RmLog, NewSink, NewTee} # {}

\* C14: a call that failed has run no step of the logging bootstrap, holds
\* no sink and no router, and has left every file, common.log included,
\* with the content it had; a call runs the bootstrap only after the five
\* directory checks, with the five directories in place, and then returns
\* an instance.
C14_FailureLeavesLogAlone ==
    \A p \in Procs :
        LET a == app[p]
        IN /\ a.pc = "failed" =>
                 /\ ~Bootstrapped(a)
                 /\ files = a.preFiles
                 /\ a._logfileOutput = NoObject
                 /\ a._output = NoRouter
           /\ Bootstrapped(a) =>
                 /\ a.pc \in {"newLog", "router", "done"}
                 /\ \A k \in 1..5 :
                       /\ Before(a, <<"verify", CreationOrder[k]>>, RmLog)
                       /\ TestD(dirs, a[CreationOrder[k]])

\* a load that fails at one of the checks, in a project whose log directory
\* holds a common.log
C14_Witness ==
    \E p \in Procs :
        /\ app[p].pc = "failed"
        /\ LoadMode(app[p])
        /\ <<"verify", "_logPath">> \in Range(app[p].trace)
        /\ app[p].err = InvalidPathException("Failed to load, invalid path")
        /\ OldLog \in DOMAIN app[p].preFiles
        /\ OldLog \in DOMAIN files
        /\ files[OldLog] = "old"

\* the files that are not as they were when the call started
ChangedFiles(a) ==
    {x \in DOMAIN files \cup DOMAIN a.preFiles :
        \/ x \notin DOMAIN files
        \/ x \notin DOMAIN a.preFiles
        \/ files[x] # a.preFiles[x]}

\* C15: during and after a call without packageId the directories are those
\* that existed when it started and no directory creation is attempted; no
\* file differs from what it was, except logPath/common.log once the call
\* has passed its checks, and a failed call has changed no file at all.
C15_LoadKeepsDirectories ==
    \A p \in Procs :
        LET a == app[p]
        IN (a.pc # "idle" /\ a.packageId = JsUndefined) =>
              /\ dirs = a.preDirs
              /\ MkdirAttempts(a) = <<>>
              /\ "checkRoot" \notin Ops(a)
              /\ ChangedFiles(a) \subseteq
                    (IF Bootstrapped(a) THEN {CommonLog(a)} ELSE {})
              /\ a.pc = "failed" => ChangedFiles(a) = {}

\* a load that succeeded and replaced the old common.log, and nothing else
C15_Witness ==
    \E p \in Procs :
        /\ app[p].pc = "done"
        /\ app[p].packageId = JsUndefined
        /\ app[p].cwd = Work \o <<SEP, "com.example.foo">>
        /\ dirs = app[p].preDirs
        /\ ChangedFiles(app[p]) = {OldLog}

\* the call found no directory at rootPath and went on to create it
PassedRootCheck(a) ==
    /\ CreateMode(a)
    /\ <<"checkRoot", "_rootPath">> \in Range(a.trace)
    /\ ~PathConflict(a.err)

\* C16: when the constructor calls of two processes that create the same
\* project interleave, the root check is the only guard: PathConflict is
\* thrown at that check and nowhere later, and a call that has passed it
\* fails only if the environment refused a directory creation or rootPath
\* is a regular file, so that a rootPath made by the other process in the
\* meantime does not stop it.
C16_RootCheckIsTheOnlyGuard ==
    \A p \in Procs :
        LET a == app[p]
        IN /\ (a.pc = "failed" /\ PathConflict(a.err)) =>
                 /\ MkdirAttempts(a) = <<>>
                 /\ a.trace[Len(a.trace)] = <<"checkRoot", "_rootPath">>
           /\ (PassedRootCheck(a) /\ a.pc = "failed") =>
                 \/ faults > 0
                 \/ Lookup(dirs, a._rootPath) \in DOMAIN files

\* both processes passed the root check of the same project and both calls
\* returned an instance, the later-starting one included
C16_Witness ==
    /\ app["cli"].pc = "done" /\ app["cli2"].pc = "done"
    /\ app["cli"].cwd = app["cli2"].cwd
    /\ app["cli"].packageId = app["cli2"].packageId
    /\ app["cli"]._rootPath = app["cli2"]._rootPath
    /\ app["cli"].callNo < app["cli2"].callNo
    /\ PassedRootCheck(app["cli"]) /\ PassedRootCheck(app["cli2"])
    /\ ~TestD(app["cli"].preDirs, app["cli"]._rootPath)
    /\ ~TestD(app["cli2"].preDirs, app["cli2"]._rootPath)
    /\ faults = 0
=============================================================================
